---- MODULE Spec2Model ----
(***************************************************************************)
(* Model of the trace analysis of lighthouse-core: the non-composited      *)
(* animations audit (four revisions of audits/non-composited-animations.js *)
(* are kept in the tree), the AnimatedElements gatherer, the failure code  *)
(* decoder, the layout-shift attribution of the TraceElements gatherer and *)
(* the sized-images audit (the revision with unsizedImage).                *)
(***************************************************************************)
EXTENDS Integers, Sequences, FiniteSets, TLC

VARIABLES
    rev,             \* which revision of the audit file runs
    traceElements,   \* artifacts.TraceElements (part_000 only)
    animationPairs,  \* Map local -> {begin, status}; NoPair when the key is not in the Map
    pairOrder,       \* insertion order of the Map's keys
    fed,             \* history of the stream per key: whether it held a begin (b) and a
                     \* status (s) fragment, the last of each (lastB, lastS), and
                     \* whether one arrived after both were there (late)
    a_pc,            \* position of audit(): "idle", "pairing", "done", "threw"
    product,         \* the LH.Audit.Product returned, NoProduct before
    a_stream         \* history: the events processed so far, kept by the runs that
                     \* record their stream, << >> in the others

auditVars == <<rev, traceElements, animationPairs, pairOrder, fed, a_pc, product, a_stream>>

VARIABLES
    g_trace,         \* loadData.trace of AnimatedElements.afterPass
    g_driver,        \* what the driver answers for each node id
    g_pc,            \* position of afterPass(): "idle", "start", "loop", "done", "threw"
    g_ids,           \* animatedElementIds
    g_i,             \* the loop index (1-based)
    g_out,           \* animatedElements, the nodeId of each pushed element
    g_calls,         \* number of driver calls made
    g_read,          \* whether the events of the trace were read
    g_err            \* message of the error thrown, "" when none

gatherVars == <<g_trace, g_driver, g_pc, g_ids, g_i, g_out, g_calls, g_read, g_err>>

VARIABLES
    d_code,          \* the failureCode handed to the decoder
    d_plain,         \* result of getActionableFailureReasons of part_000, NoResult before
    d_flagged        \* result of getActionableFailureReasons of part_001, NoResult before

decodeVars == <<d_code, d_plain, d_flagged>>

VARIABLES
    s_pc,            \* position of getTopLayoutShiftElements: "idle", "samples", "done"
    clsPerNode,      \* the aggregation map, entries [nodeId, score] in insertion order
    s_sum,           \* history: sum of the totalScore of the samples processed
    s_n,             \* number of samples processed
    s_top,           \* the list returned
    s_stream         \* history: the samples processed, in order

shiftVars == <<s_pc, clsPerNode, s_sum, s_n, s_top, s_stream>>

VARIABLES
    imageElements,   \* artifacts.ImageElements of SizedImages.audit
    i_pc,            \* position of SizedImages.audit: "idle", "start", "loop", "done"
    images,          \* the images left by the filter
    i_idx,           \* the loop index (1-based)
    unsizedImages,   \* the items pushed so far
    i_product        \* the LH.Audit.Product returned, NoProduct before

imageVars == <<imageElements, i_pc, images, i_idx, unsizedImages, i_product>>

vars == <<auditVars, gatherVars, decodeVars, shiftVars, imageVars>>

-----------------------------------------------------------------------------
(* Bounds *)

\* node ids of the trace are 1..MaxNode; 0 stands for a missing (falsy) nodeId
MaxNode == 2

\* longest trace handed to the gatherer
MaxTraceLen == 3

\* failure codes tried: sign * (h * 2^12 + l), h in 0..MaxHigh, l in 0..MaxLow
MaxHigh == 7
MaxLow == 3

\* number of layout-shift samples in a stream
MaxSamples == 3

\* length of the event streams that are recorded
MaxStream == 3

\* the length of ImageElements up to which every list of the sample images is tried
MaxImages == 3

-----------------------------------------------------------------------------
(* Small helpers *)

RECURSIVE BitAnd(_, _)
\* a & b on non-negative integers
BitAnd(a, b) ==
    IF a = 0 \/ b = 0 THEN 0
    ELSE (IF a % 2 = 1 /\ b % 2 = 1 THEN 1 ELSE 0) + 2 * BitAnd(a \div 2, b \div 2)

\* the low 31 bits of the two's complement pattern of an int32 (the operands
\* of the JS bitwise operators are converted with ToInt32)
Low31(x) == IF x >= 0 THEN x ELSE (x + 2 ^ 30) + 2 ^ 30

\* the int32 with sign bit neg and low bits low
Int32Of(neg, low) == IF neg THEN (low - 2 ^ 30) - 2 ^ 30 ELSE low

\* a & b of JS
JsAnd(a, b) == Int32Of(a < 0 /\ b < 0, BitAnd(Low31(a), Low31(b)))

\* a & ~b of JS
JsAndNot(a, b) ==
    Int32Of(a < 0 /\ b >= 0, BitAnd(Low31(a), ((2 ^ 30 - 1) + 2 ^ 30) - Low31(b)))

-----------------------------------------------------------------------------
(* The failure code decoder *)

ACTIONABLE_FAILURE_REASONS ==
    << [flag |-> 2 ^ 13, text |-> "Unsupported CSS Property"] >>

RECURSIVE DecodeFrom(_, _)
\* forEach over the catalog from index i on, pushing the texts that match
DecodeFrom(failureCode, i) ==
    IF i > Len(ACTIONABLE_FAILURE_REASONS) THEN << >>
    ELSE LET reason == ACTIONABLE_FAILURE_REASONS[i]
         IN  (IF JsAnd(failureCode, reason.flag) # 0 THEN <<reason.text>> ELSE << >>)
             \o DecodeFrom(failureCode, i + 1)

RECURSIVE DecodeEqualFrom(_, _)
\* the flag compared with === instead of tested with &
DecodeEqualFrom(failureCode, i) ==
    IF i > Len(ACTIONABLE_FAILURE_REASONS) THEN << >>
    ELSE LET reason == ACTIONABLE_FAILURE_REASONS[i]
         IN  (IF failureCode = reason.flag THEN <<reason.text>> ELSE << >>)
             \o DecodeEqualFrom(failureCode, i + 1)

getActionableFailureReasons_Equal(failureCode) == DecodeEqualFrom(failureCode, 1)

\* part_000: returns string[]
getActionableFailureReasons(failureCode) == DecodeFrom(failureCode, 1)

\* the matched flags are not cleared before the code is tested
getActionableFailureReasonsFlagged_Uncleared(failureCode) ==
    [failureReasons |-> DecodeFrom(failureCode, 1), hasNonActionable |-> failureCode # 0]

RECURSIVE DecodeFlagFrom(_, _, _)
\* part_001: also clears each matched flag in failureCode; acc is failureReasons
DecodeFlagFrom(failureCode, i, acc) ==
    IF i > Len(ACTIONABLE_FAILURE_REASONS)
    THEN [failureReasons |-> acc, hasNonActionable |-> failureCode # 0]
    ELSE LET reason == ACTIONABLE_FAILURE_REASONS[i]
         IN  IF JsAnd(failureCode, reason.flag) # 0
             THEN DecodeFlagFrom(JsAndNot(failureCode, reason.flag), i + 1,
                                 Append(acc, reason.text))
             ELSE DecodeFlagFrom(failureCode, i + 1, acc)

\* part_001: returns {failureReasons, hasNonActionable}
getActionableFailureReasonsFlagged(failureCode) == DecodeFlagFrom(failureCode, 1, << >>)

-----------------------------------------------------------------------------
(* Trace events of the audit *)

Revs == {"part_000", "named", "part_001", "part_002"}

AnimKeys == {"0x363db876c8", "0x363db876c9"}

Nodes == 1 .. MaxNode

\* compositeFailed values: 0 is absent or zero, 2^13 the catalog bit, 1 a bit outside the catalog
AuditCodes == {0, 2 ^ 13, 2 ^ 13 + 1, 1}

\* args: event.args exists; data: event.args.data exists
Payload(args, data, nodeId, compositeFailed) ==
    [args |-> args, data |-> data, nodeId |-> nodeId, compositeFailed |-> compositeFailed]

NoDataPayloads == {Payload(FALSE, FALSE, 0, 0), Payload(TRUE, FALSE, 0, 0)}

BeginPayloads == NoDataPayloads \cup {Payload(TRUE, TRUE, n, 0) : n \in 0 .. MaxNode}

StatusPayloads == NoDataPayloads \cup {Payload(TRUE, TRUE, 0, c) : c \in AuditCodes}

Event(name, ph, local, p) ==
    [name |-> name, ph |-> ph, local |-> local, args |-> p.args, data |-> p.data,
     nodeId |-> p.nodeId, compositeFailed |-> p.compositeFailed]

\* local = "" stands for an event without id2 or without id2.local
TraceEvents ==
    {Event("Animation", "b", k, p) : k \in AnimKeys, p \in BeginPayloads}
    \cup {Event("Animation", "n", k, p) : k \in AnimKeys, p \in StatusPayloads}
    \cup {Event("CompositeAnimation", "n", k, p) : k \in AnimKeys, p \in StatusPayloads}
    \cup {Event("Animation", "e", k, Payload(TRUE, FALSE, 0, 0)) : k \in AnimKeys}
    \cup {Event("LayoutShift", "I", k, Payload(TRUE, TRUE, 0, 0)) : k \in AnimKeys}
    \cup {Event("Animation", "b", "", Payload(TRUE, TRUE, 1, 0)),
          Event("CompositeAnimation", "n", "", Payload(TRUE, TRUE, 0, 2 ^ 13))}

\* undefined in the place of an event; its fields read as absent
NoEvent == Event("undefined", "", "", Payload(FALSE, FALSE, 0, 0))

NoPair == [present |-> FALSE]

NoProduct == [returned |-> FALSE]

\* what the stream holds, told from the events alone: the begin fragment of a
\* key is its Animation 'b' event; the status fragment is the CompositeAnimation
\* event (part_000) or the Animation 'n' event (earlier revisions)
IsBeginFragment(e) == e.name = "Animation" /\ e.ph = "b" /\ e.local # ""

IsStatusFragment(r, e) ==
    /\ e.local # ""
    /\ IF r = "part_000" THEN e.name = "CompositeAnimation"
       ELSE e.name = "Animation" /\ e.ph = "n"

-----------------------------------------------------------------------------
(* audit(): the pairing pass *)

\* the name filter at the head of the loop body
IsTracked(r, e) ==
    IF r = "part_000" THEN e.name \in {"Animation", "CompositeAnimation"}
    ELSE e.name = "Animation"

\* a status fragment is recorded only when the begin fragment is there
UpdatePair_StatusNeedsBegin(r, pair, e) ==
    IF r = "part_000"
    THEN IF e.name = "Animation" /\ e.ph = "b" THEN [pair EXCEPT !.begin = e]
         ELSE IF e.name = "CompositeAnimation" /\ pair.begin # NoEvent
         THEN [pair EXCEPT !.status = e]
         ELSE pair
    ELSE IF e.ph = "b" THEN [pair EXCEPT !.begin = e]
         ELSE IF e.ph = "n" /\ pair.begin # NoEvent THEN [pair EXCEPT !.status = e]
         ELSE pair

\* the begin fragment is recorded only once
UpdatePair_FirstBeginKept(r, pair, e) ==
    IF r = "part_000"
    THEN IF e.name = "Animation" /\ e.ph = "b"
         THEN IF pair.begin = NoEvent THEN [pair EXCEPT !.begin = e] ELSE pair
         ELSE IF e.name = "CompositeAnimation" THEN [pair EXCEPT !.status = e]
         ELSE pair
    ELSE IF e.ph = "b"
         THEN IF pair.begin = NoEvent THEN [pair EXCEPT !.begin = e] ELSE pair
         ELSE IF e.ph = "n" THEN [pair EXCEPT !.status = e]
         ELSE pair

\* an event of any other phase is recorded as the status
UpdatePair_AnyPhaseStatus(r, pair, e) ==
    IF r = "part_000"
    THEN IF e.name = "Animation" /\ e.ph = "b" THEN [pair EXCEPT !.begin = e]
         ELSE [pair EXCEPT !.status = e]
    ELSE IF e.ph = "b" THEN [pair EXCEPT !.begin = e]
         ELSE [pair EXCEPT !.status = e]

\* begin is kept once the pair has both fragments; status is kept once set
UpdatePair_FirstWins(r, pair, e) ==
    IF r = "part_000"
    THEN IF e.name = "Animation" /\ e.ph = "b"
         THEN IF pair.begin # NoEvent /\ pair.status # NoEvent THEN pair
              ELSE [pair EXCEPT !.begin = e]
         ELSE IF e.name = "CompositeAnimation" /\ pair.status = NoEvent
         THEN [pair EXCEPT !.status = e]
         ELSE pair
    ELSE IF e.ph = "b"
         THEN IF pair.begin # NoEvent /\ pair.status # NoEvent THEN pair
              ELSE [pair EXCEPT !.begin = e]
         ELSE IF e.ph = "n" /\ pair.status = NoEvent THEN [pair EXCEPT !.status = e]
         ELSE pair

\* the assignment to the pair at the end of the loop body
UpdatePair(r, pair, e) ==
    IF r = "part_000"
    THEN IF e.name = "Animation" /\ e.ph = "b" THEN [pair EXCEPT !.begin = e]
         ELSE IF e.name = "CompositeAnimation" THEN [pair EXCEPT !.status = e]
         ELSE pair
    ELSE IF e.ph = "b" THEN [pair EXCEPT !.begin = e]
         ELSE IF e.ph = "n" THEN [pair EXCEPT !.status = e]
         ELSE pair

\* one iteration of the loop over mainThreadEvents
PairsAfter(r, pairs, e) ==
    IF ~IsTracked(r, e) \/ e.local = "" THEN pairs
    ELSE LET fresh == [present |-> TRUE, begin |-> NoEvent, status |-> NoEvent]
             pair  == IF pairs[e.local].present THEN pairs[e.local] ELSE fresh
         IN  [pairs EXCEPT ![e.local] = UpdatePair(r, pair, e)]

OrderAfter(r, pairs, order, e) ==
    IF ~IsTracked(r, e) \/ e.local = "" \/ pairs[e.local].present THEN order
    ELSE Append(order, e.local)

FedAfter(r, f, e) ==
    IF e.local = "" THEN f
    ELSE [f EXCEPT ![e.local] =
            [b     |-> f[e.local].b \/ IsBeginFragment(e),
             s     |-> f[e.local].s \/ IsStatusFragment(r, e),
             lastB |-> IF IsBeginFragment(e) THEN e ELSE f[e.local].lastB,
             lastS |-> IF IsStatusFragment(r, e) THEN e ELSE f[e.local].lastS,
             late  |-> \/ f[e.local].late
                      \/ /\ f[e.local].b /\ f[e.local].s
                         /\ (IsBeginFragment(e) \/ IsStatusFragment(r, e))]]

\* one iteration of the loop, whatever becomes of the recorded stream
PairingStep(e) ==
    /\ a_pc = "pairing"
    /\ animationPairs' = PairsAfter(rev, animationPairs, e)
    /\ pairOrder' = OrderAfter(rev, animationPairs, pairOrder, e)
    /\ fed' = FedAfter(rev, fed, e)
    /\ UNCHANGED <<rev, traceElements, a_pc, product, gatherVars, decodeVars, shiftVars, imageVars>>

ProcessEvent(e) == PairingStep(e) /\ UNCHANGED a_stream

\* the same iteration in a run that records its stream
ProcessRecorded(e) ==
    /\ Len(a_stream) < MaxStream
    /\ PairingStep(e)
    /\ a_stream' = Append(a_stream, e)

-----------------------------------------------------------------------------
(* audit(): from the pairs to the product *)

CLS_METRIC == "CLS/non-composited-animations"

\* the guard with the tests of pair.status left out
PairCheck_BeginOnly(r, pair) ==
    IF pair.begin = NoEvent THEN "skip"
    ELSE IF ~pair.begin.args THEN "throw"
    ELSE IF ~pair.begin.data THEN "skip"
    ELSE IF r # "part_002" /\ pair.begin.nodeId = 0 THEN "skip"
    ELSE "ok"

\* the guard at the head of animationPairs.forEach: "ok" when the pair passes,
\* "skip" when the callback returns, "throw" when a property of undefined is
\* read (pair.begin.args.data or pair.status.args.data with args missing)
PairCheck(r, pair) ==
    IF pair.begin = NoEvent THEN "skip"
    ELSE IF ~pair.begin.args THEN "throw"
    ELSE IF ~pair.begin.data THEN "skip"
    ELSE IF r # "part_002" /\ pair.begin.nodeId = 0 THEN "skip"
    ELSE IF pair.status = NoEvent THEN "skip"
    ELSE IF ~pair.status.args THEN "throw"
    ELSE IF ~pair.status.data THEN "skip"
    ELSE IF pair.status.compositeFailed = 0 THEN "skip"
    ELSE "ok"

\* the filter on metricName left out
AnimatedElementsOf_Unfiltered(te) == te

\* artifacts.TraceElements.filter(e => e.metricName === ...)
AnimatedElementsOf(te) == {e \in te : e.metricName = CLS_METRIC}

\* animatedElements.find(e => e.nodeId === nodeId) finds an element
HasElement(te, nodeId) == \E e \in AnimatedElementsOf(te) : e.nodeId = nodeId

\* the failure reasons of a pair that passed the guard, and whether the
\* callback returns before grouping it
ReasonsOf(r, pair) ==
    IF r = "part_000" THEN getActionableFailureReasons(pair.status.compositeFailed)
    ELSE IF r = "part_001"
    THEN getActionableFailureReasonsFlagged(pair.status.compositeFailed).failureReasons
    ELSE << >>

\* the test of failureReasons.length left out
Suppressed_EmptyReasonsKept(r, te, pair) ==
    IF r = "part_000" THEN ~HasElement(te, pair.begin.nodeId)
    ELSE IF r = "part_001"
    THEN getActionableFailureReasonsFlagged(pair.status.compositeFailed).hasNonActionable
    ELSE FALSE

Suppressed(r, te, pair) ==
    IF r = "part_000"
    THEN \/ ~HasElement(te, pair.begin.nodeId)
         \/ Len(getActionableFailureReasons(pair.status.compositeFailed)) = 0
    ELSE IF r = "part_001"
    THEN LET d == getActionableFailureReasonsFlagged(pair.status.compositeFailed)
         IN  Len(d.failureReasons) = 0 \/ d.hasNonActionable
    ELSE FALSE

\* animatedElements.find(e => e.nodeId === nodeId), when it finds one
ElementOf(te, nodeId) == CHOOSE e \in AnimatedElementsOf(te) : e.nodeId = nodeId

\* the node value built for a pair: the descriptor of the element in part_000,
\* fixed texts and the node id before; key records the pair it was built from
NodeOf(r, te, pair, k) ==
    IF r = "part_000"
    THEN LET element == ElementOf(te, pair.begin.nodeId)
         IN  [path      |-> element.devtoolsNodePath,
              selector  |-> element.selector,
              nodeLabel |-> element.nodeLabel,
              snippet   |-> element.snippet,
              key       |-> k]
    ELSE [path      |-> "lcpElement.devtoolsNodePath",
          selector  |-> "lcpElement.selector",
          nodeLabel |-> pair.begin.nodeId,
          snippet   |-> "lcpElement.snippet",
          key       |-> k]

\* every node starts a record of its own
GroupInto_Separate(animations, animation, failureReasons, node) ==
    Append(animations,
           [animation |-> animation, failureReasons |-> failureReasons,
            nodes |-> <<node>>])

\* animations.get(animation) / data.nodes.push(node) / animations.set(...)
GroupInto(animations, animation, failureReasons, node) ==
    IF \E i \in 1 .. Len(animations) : animations[i].animation = animation
    THEN [i \in 1 .. Len(animations) |->
            IF animations[i].animation = animation
            THEN [animations[i] EXCEPT !.nodes = Append(@, node)]
            ELSE animations[i]]
    ELSE Append(animations,
                [animation |-> animation, failureReasons |-> failureReasons,
                 nodes |-> <<node>>])

RECURSIVE AssembleFrom(_, _, _, _, _, _)
\* animationPairs.forEach in insertion order; acc is the Map animations (the
\* array results in part_002); a throw ends the walk
AssembleFrom(r, te, pairs, order, i, acc) ==
    IF i > Len(order) THEN [threw |-> FALSE, items |-> acc]
    ELSE LET k     == order[i]
             pair  == pairs[k]
             check == PairCheck(r, pair)
         IN  IF check = "throw" THEN [threw |-> TRUE, items |-> << >>]
             ELSE IF check = "skip" THEN AssembleFrom(r, te, pairs, order, i + 1, acc)
             ELSE IF Suppressed(r, te, pair)
             THEN AssembleFrom(r, te, pairs, order, i + 1, acc)
             ELSE IF r = "part_002"
             THEN AssembleFrom(r, te, pairs, order, i + 1,
                               Append(acc, [node |-> NodeOf(r, te, pair, k)]))
             ELSE AssembleFrom(r, te, pairs, order, i + 1,
                               GroupInto(acc, "~placeholder~", ReasonsOf(r, pair),
                                         NodeOf(r, te, pair, k)))

\* the object returned by audit()
ProductOf(r, items) ==
    [returned      |-> TRUE,
     score         |-> IF r = "part_002" THEN 0 ELSE IF Len(items) = 0 THEN 1 ELSE 0,
     notApplicable |-> IF r = "part_002" THEN FALSE ELSE Len(items) = 0,
     items         |-> items,
     displayValue  |-> IF Len(items) > 0 THEN [set |-> TRUE, itemCount |-> Len(items)]
                       ELSE [set |-> FALSE, itemCount |-> 0]]

Assemble ==
    /\ a_pc = "pairing"
    /\ LET res == AssembleFrom(rev, traceElements, animationPairs, pairOrder, 1, << >>)
       IN  IF res.threw
           THEN a_pc' = "threw" /\ product' = NoProduct
           ELSE a_pc' = "done" /\ product' = ProductOf(rev, res.items)
    /\ UNCHANGED <<rev, traceElements, animationPairs, pairOrder, fed, a_stream, gatherVars,
                   decodeVars, shiftVars, imageVars>>

\* the nodes of one table item
ItemNodes(item) == IF "node" \in DOMAIN item THEN <<item.node>> ELSE item.nodes

\* the nodes of the product, in table order
RECURSIVE NodesFrom(_, _)
NodesFrom(items, i) ==
    IF i > Len(items) THEN << >> ELSE ItemNodes(items[i]) \o NodesFrom(items, i + 1)

EmittedNodes(p) == IF p.returned THEN NodesFrom(p.items, 1) ELSE << >>

\* the keys whose pair put a node into the product
EmittedKeys(p) == {EmittedNodes(p)[j].key : j \in 1 .. Len(EmittedNodes(p))}

-----------------------------------------------------------------------------
(* The audit as a state machine: any stream of events, then the product *)

\* an entry of artifacts.TraceElements for a node, shaped as the entry of the
\* audit's test: its descriptor and the animations recorded for the element
TraceElement(n, metricName) ==
    [nodeId           |-> n,
     metricName       |-> metricName,
     devtoolsNodePath |-> <<"devtoolsNodePath", n>>,
     selector         |-> <<"selector", n>>,
     nodeLabel        |-> <<"nodeLabel", n>>,
     snippet          |-> <<"snippet", n>>,
     animations       |-> << [id |-> "1", name |-> "example"] >>]

\* the TraceElements artifacts tried: every node with an entry of the audit's
\* metric; or node 1 alone with one, the other nodes with an entry of another metric
TraceElementsInputs ==
    { {TraceElement(n, CLS_METRIC) : n \in Nodes},
      {TraceElement(n, IF n = 1 THEN CLS_METRIC ELSE "largest-contentful-paint") :
          n \in Nodes} }

AuditIdle ==
    /\ rev = "none"
    /\ traceElements = {}
    /\ animationPairs = [k \in AnimKeys |-> NoPair]
    /\ pairOrder = << >>
    /\ fed = [k \in AnimKeys |->
                [b |-> FALSE, s |-> FALSE, lastB |-> NoEvent, lastS |-> NoEvent,
                 late |-> FALSE]]
    /\ a_pc = "idle"
    /\ product = NoProduct
    /\ a_stream = << >>

GatherIdle ==
    /\ g_trace = [present |-> FALSE, events |-> << >>]
    /\ g_driver = [n \in 1 .. MaxNode |-> "value"]
    /\ g_pc = "idle"
    /\ g_ids = << >>
    /\ g_i = 1
    /\ g_out = << >>
    /\ g_calls = 0
    /\ g_read = FALSE
    /\ g_err = ""

DecodeIdle ==
    /\ d_code = 0
    /\ d_plain = [returned |-> FALSE]
    /\ d_flagged = [returned |-> FALSE]

ShiftIdle ==
    /\ s_pc = "idle"
    /\ clsPerNode = << >>
    /\ s_sum = [n |-> 0, d |-> 1]
    /\ s_n = 0
    /\ s_top = << >>
    /\ s_stream = << >>

ImageIdle ==
    /\ imageElements = << >>
    /\ i_pc = "idle"
    /\ images = << >>
    /\ i_idx = 1
    /\ unsizedImages = << >>
    /\ i_product = [returned |-> FALSE]

InitAudit ==
    /\ GatherIdle
    /\ DecodeIdle
    /\ ShiftIdle
    /\ ImageIdle
    /\ rev \in Revs
    \* only part_000 requires (and reads) the TraceElements artifact
    /\ traceElements \in (IF rev = "part_000" THEN TraceElementsInputs ELSE {{}})
    /\ animationPairs = [k \in AnimKeys |-> NoPair]
    /\ pairOrder = << >>
    /\ fed = [k \in AnimKeys |->
                [b |-> FALSE, s |-> FALSE, lastB |-> NoEvent, lastS |-> NoEvent,
                 late |-> FALSE]]
    /\ a_pc = "pairing"
    /\ product = NoProduct
    /\ a_stream = << >>

NextAudit ==
    \/ \E e \in TraceEvents : ProcessEvent(e)
    \/ Assemble

SpecAudit == InitAudit /\ [][NextAudit]_vars

\* the events of the recorded streams: well-formed begin fragments, status
\* fragments with the catalog bit or with a bit outside the catalog, an event
\* of a phase that is neither, one of a name that is not tracked and one
\* without id2.local
StreamNodes == {1, 2}

StreamEvents ==
    {Event("Animation", "b", k, Payload(TRUE, TRUE, n, 0)) : k \in AnimKeys, n \in StreamNodes}
    \cup {Event("Animation", "n", k, Payload(TRUE, TRUE, 0, c)) :
             k \in AnimKeys, c \in {2 ^ 13, 1}}
    \cup {Event("CompositeAnimation", "n", k, Payload(TRUE, TRUE, 0, c)) :
             k \in AnimKeys, c \in {2 ^ 13, 1}}
    \cup {Event("Animation", "e", "0x363db876c8", Payload(TRUE, FALSE, 0, 0)),
          Event("LayoutShift", "I", "0x363db876c8", Payload(TRUE, TRUE, 0, 0)),
          Event("Animation", "b", "", Payload(TRUE, TRUE, 1, 0))}

\* a status fragment is taken in the form the revision pairs
InStreamOf(r, e) ==
    IF r = "part_000" THEN ~(e.name = "Animation" /\ e.ph = "n")
    ELSE e.name # "CompositeAnimation"

NextRecorded ==
    \/ \E e \in StreamEvents : InStreamOf(rev, e) /\ ProcessRecorded(e)
    \/ Assemble

SpecRecorded == InitAudit /\ [][NextRecorded]_vars

-----------------------------------------------------------------------------
(* AnimatedElements.afterPass *)

NoTrace == [present |-> FALSE, events |-> << >>]

GatherKey == "0x363db876c8"

\* the events a trace given to the gatherer is made of
GatherEvents ==
    {Event("Animation", "b", GatherKey, p) : p \in BeginPayloads}
    \cup {Event("Animation", "n", GatherKey, Payload(TRUE, TRUE, 1, 0)),
          Event("LayoutShift", "I", "", Payload(TRUE, TRUE, 1, 0))}

RECURSIVE SeqsUpTo(_, _)
\* the sequences over S of length at most n
SeqsUpTo(S, n) ==
    IF n = 0 THEN {<< >>}
    ELSE LET shorter == SeqsUpTo(S, n - 1)
         IN  shorter \cup {Append(q, x) : q \in shorter, x \in S}

GatherTraces ==
    {NoTrace} \cup {[present |-> TRUE, events |-> ev] : ev \in SeqsUpTo(GatherEvents, MaxTraceLen)}

\* per node id: "none" resolveNodeIdToObjectId gives no objectId; "empty" the
\* call on the page returns no value; "value" it returns the element's data
DriverAnswers == [1 .. MaxNode -> {"none", "empty", "value"}]

\* the check left out: a missing trace is read as an empty one
TraceMissing_Unchecked(trace) == FALSE

\* if (!loadData.trace)
TraceMissing(trace) == ~trace.present

RECURSIVE AnimatedElementIds(_)
\* mainThreadEvents.filter(Animation, 'b').map(e => e.args && e.args.data && e.args.data.nodeId)
\* a missing args, data or nodeId maps to a falsy value, 0 here
AnimatedElementIds(events) ==
    IF events = << >> THEN << >>
    ELSE LET e == Head(events)
         IN  (IF e.name = "Animation" /\ e.ph = "b"
              THEN <<IF e.args /\ e.data THEN e.nodeId ELSE 0>>
              ELSE << >>)
             \o AnimatedElementIds(Tail(events))

\* what one iteration of the loop appends to animatedElements
PushedFor(driver, id) ==
    IF id = 0 THEN << >>
    ELSE IF driver[id] = "none" THEN << >>
    ELSE IF driver[id] = "value" THEN <<id>>
    ELSE << >>

\* the driver calls one iteration makes
CallsFor(driver, id) ==
    IF id = 0 THEN 0 ELSE IF driver[id] = "none" THEN 1 ELSE 2

AfterPassEnter ==
    /\ g_pc = "start"
    /\ IF TraceMissing(g_trace)
       THEN /\ g_pc' = "threw"
            /\ g_err' = "Trace is missing!"
            /\ UNCHANGED <<g_ids, g_read>>
       ELSE /\ g_pc' = "loop"
            /\ g_ids' = AnimatedElementIds(g_trace.events)
            /\ g_read' = TRUE
            /\ g_err' = ""
    /\ UNCHANGED <<g_trace, g_driver, g_i, g_out, g_calls, auditVars, decodeVars, shiftVars, imageVars>>

AfterPassIterate ==
    /\ g_pc = "loop"
    /\ g_i <= Len(g_ids)
    /\ g_out' = g_out \o PushedFor(g_driver, g_ids[g_i])
    /\ g_calls' = g_calls + CallsFor(g_driver, g_ids[g_i])
    /\ g_i' = g_i + 1
    /\ UNCHANGED <<g_trace, g_driver, g_pc, g_ids, g_read, g_err, auditVars, decodeVars, shiftVars, imageVars>>

AfterPassReturn ==
    /\ g_pc = "loop"
    /\ g_i > Len(g_ids)
    /\ g_pc' = "done"
    /\ UNCHANGED <<g_trace, g_driver, g_ids, g_i, g_out, g_calls, g_read, g_err, auditVars, decodeVars, shiftVars, imageVars>>

InitGather ==
    /\ AuditIdle
    /\ DecodeIdle
    /\ ShiftIdle
    /\ ImageIdle
    /\ g_trace \in GatherTraces
    /\ g_driver \in DriverAnswers
    /\ g_pc = "start"
    /\ g_ids = << >>
    /\ g_i = 1
    /\ g_out = << >>
    /\ g_calls = 0
    /\ g_read = FALSE
    /\ g_err = ""

NextGather == AfterPassEnter \/ AfterPassIterate \/ AfterPassReturn

SpecGather == InitGather /\ [][NextGather]_vars

RECURSIVE AfterPassFrom(_, _)
\* the whole loop over ids: the list afterPass returns
AfterPassFrom(driver, ids) ==
    IF ids = << >> THEN << >>
    ELSE PushedFor(driver, Head(ids)) \o AfterPassFrom(driver, Tail(ids))

\* afterPass on a trace that is present
AfterPassResult(driver, events) == AfterPassFrom(driver, AnimatedElementIds(events))

-----------------------------------------------------------------------------
(* The decoder on its own: any failure code, each revision's decoder once *)

NoResult == [returned |-> FALSE]

FailureCodes ==
    {sign * (h * 2 ^ 12 + l) : sign \in {1, -1}, h \in 0 .. MaxHigh, l \in 0 .. MaxLow}
    \cup {2 ^ 30, 2 ^ 30 + 2 ^ 13}

DecodePlain ==
    /\ ~d_plain.returned
    /\ d_plain' = [returned |-> TRUE, value |-> getActionableFailureReasons(d_code)]
    /\ UNCHANGED <<d_code, d_flagged, auditVars, gatherVars, shiftVars, imageVars>>

DecodeFlagged ==
    /\ ~d_flagged.returned
    /\ d_flagged' = [returned |-> TRUE, value |-> getActionableFailureReasonsFlagged(d_code)]
    /\ UNCHANGED <<d_code, d_plain, auditVars, gatherVars, shiftVars, imageVars>>

InitDecode ==
    /\ AuditIdle
    /\ GatherIdle
    /\ ShiftIdle
    /\ ImageIdle
    /\ d_code \in FailureCodes
    /\ d_plain = NoResult
    /\ d_flagged = NoResult

NextDecode == DecodePlain \/ DecodeFlagged

SpecDecode == InitDecode /\ [][NextDecode]_vars

-----------------------------------------------------------------------------
(* The audit and the gatherer side by side: a run is one call of either *)

InitTrace == InitAudit \/ InitGather

NextTrace == NextAudit \/ NextGather

SpecTrace == InitTrace /\ [][NextTrace]_vars

-----------------------------------------------------------------------------
(* getTopLayoutShiftElements: scores are exact rationals [n, d], d > 0, in *)
(* lowest terms                                                             *)

RECURSIVE Gcd(_, _)
Gcd(a, b) == IF b = 0 THEN a ELSE Gcd(b, a % b)

Abs(x) == IF x < 0 THEN -x ELSE x

Rat(n, d) ==
    LET g == Gcd(Abs(n), d)
    IN  IF n = 0 THEN [n |-> 0, d |-> 1] ELSE [n |-> n \div g, d |-> d \div g]

RatAdd(a, b) == Rat(a.n * b.d + b.n * a.d, a.d * b.d)

RatMul(a, b) == Rat(a.n * b.n, a.d * b.d)

RatLess(a, b) == a.n * b.d < b.n * a.d

\* the number of top elements returned
TOP_N == 5

\* a trace rect is [x, y, width, height]
RectArea(rect) == rect[3] * rect[4]

Region(node_id, old_rect, new_rect) ==
    [node_id |-> node_id, old_rect |-> old_rect, new_rect |-> new_rect]

Sample(score, impacted_nodes) == [score |-> score, impacted_nodes |-> impacted_nodes]

\* the layout-shift events of the gatherer's tests
FixtureSamples ==
    { Sample(Rat(1, 1), << Region(60, <<0, 0, 200, 100>>, <<0, 0, 200, 200>>),
                          Region(25, <<0, 100, 200, 100>>, <<0, 300, 200, 200>>) >>),
      Sample(Rat(3, 10), << Region(60, <<0, 0, 200, 200>>, <<0, 100, 200, 200>>) >>),
      Sample(Rat(1, 1), << Region(1, <<0, 0, 100, 100>>, <<0, 100, 100, 100>>),
                          Region(2, <<0, 100, 100, 100>>, <<0, 200, 100, 100>>) >>),
      Sample(Rat(1, 1), << Region(3, <<0, 100, 200, 200>>, <<0, 100, 200, 200>>) >>),
      Sample(Rat(3, 4), << Region(4, <<0, 0, 100, 100>>, <<0, 0, 100, 50>>),
                          Region(5, <<0, 0, 100, 100>>, <<0, 0, 100, 50>>),
                          Region(6, <<0, 0, 100, 100>>, <<0, 0, 100, 200>>),
                          Region(7, <<0, 0, 100, 100>>, <<0, 0, 100, 200>>) >>) }

\* further events: nodes first seen against their id order, regions of very
\* different weight, two regions whose rects are all empty
OtherSamples ==
    { Sample(Rat(1, 2), << Region(7, <<0, 0, 100, 100>>, <<0, 50, 100, 100>>),
                          Region(3, <<0, 0, 100, 100>>, <<0, 80, 100, 100>>) >>),
      Sample(Rat(1, 4), << Region(25, <<0, 0, 100, 100>>, <<0, 0, 100, 300>>),
                          Region(2, <<0, 0, 50, 50>>, <<10, 10, 50, 50>>) >>),
      Sample(Rat(1, 2), << Region(1, <<0, 0, 0, 0>>, <<0, 0, 0, 0>>),
                          Region(6, <<0, 0, 100, 0>>, <<0, 50, 100, 0>>) >>) }

ShiftSamples == FixtureSamples \cup OtherSamples

Min(a, b) == IF a < b THEN a ELSE b

Max(a, b) == IF a < b THEN b ELSE a

\* the area two rects have in common
RectOverlap(a, b) ==
    LET w == Min(a[1] + a[3], b[1] + b[3]) - Max(a[1], b[1])
        h == Min(a[2] + a[4], b[2] + b[4]) - Max(a[2], b[2])
    IN  IF w > 0 /\ h > 0 THEN w * h ELSE 0

\* regionAreaDelta = |area(newRect) - area(previousRect)|
RegionAreaDelta(region) == Abs(RectArea(region.new_rect) - RectArea(region.old_rect))

\* the weight of a region: the area covered by its old or its new rect, the
\* one weight under which the expected scores of all three tests come out
RegionImpactArea(region) ==
    RectArea(region.old_rect) + RectArea(region.new_rect)
        - RectOverlap(region.old_rect, region.new_rect)

RECURSIVE SumDeltas(_)
SumDeltas(regions) ==
    IF regions = << >> THEN 0
    ELSE RegionImpactArea(Head(regions)) + SumDeltas(Tail(regions))

\* every region gets nothing when the weights sum to zero
RegionShare_ZeroLost(sample, region) ==
    LET total == SumDeltas(sample.impacted_nodes)
    IN  IF total = 0 THEN Rat(0, 1)
        ELSE RatMul(sample.score, Rat(RegionImpactArea(region), total))

\* the share of the sample's score that goes to a region: its weight over the
\* sum of the weights; an equal split when that sum is zero
RegionShare(sample, region) ==
    LET total == SumDeltas(sample.impacted_nodes)
    IN  IF total = 0 THEN RatMul(sample.score, Rat(1, Len(sample.impacted_nodes)))
        ELSE RatMul(sample.score, Rat(RegionImpactArea(region), total))

\* every contribution gets an entry of its own
AddContribution_Duplicate(cls, nodeId, share) ==
    Append(cls, [nodeId |-> nodeId, score |-> share])

\* the node's score set to the contribution, not added to
AddContribution_Overwrite(cls, nodeId, share) ==
    IF \E i \in 1 .. Len(cls) : cls[i].nodeId = nodeId
    THEN [i \in 1 .. Len(cls) |->
            IF cls[i].nodeId = nodeId THEN [cls[i] EXCEPT !.score = share] ELSE cls[i]]
    ELSE Append(cls, [nodeId |-> nodeId, score |-> share])

\* add a contribution into the running score of the node
AddContribution(cls, nodeId, share) ==
    IF \E i \in 1 .. Len(cls) : cls[i].nodeId = nodeId
    THEN [i \in 1 .. Len(cls) |->
            IF cls[i].nodeId = nodeId
            THEN [cls[i] EXCEPT !.score = RatAdd(@, share)]
            ELSE cls[i]]
    ELSE Append(cls, [nodeId |-> nodeId, score |-> share])

RECURSIVE AddRegions(_, _, _)
\* the regions of one sample from index i on
AddRegions(cls, sample, i) ==
    IF i > Len(sample.impacted_nodes) THEN cls
    ELSE LET region == sample.impacted_nodes[i]
         IN  AddRegions(AddContribution(cls, region.node_id, RegionShare(sample, region)),
                        sample, i + 1)

RECURSIVE InsertSorted(_, _)
\* insert behind every entry whose score is not smaller: a stable descending sort
InsertSorted(sorted, entry) ==
    IF sorted = << >> THEN <<entry>>
    ELSE IF RatLess(Head(sorted).score, entry.score) THEN <<entry>> \o sorted
    ELSE <<Head(sorted)>> \o InsertSorted(Tail(sorted), entry)

RECURSIVE SortDescending(_, _)
SortDescending(cls, i) ==
    IF i = 0 THEN << >> ELSE InsertSorted(SortDescending(cls, i - 1), cls[i])

FirstN(q, n) == IF Len(q) <= n THEN q ELSE SubSeq(q, 1, n)

\* the first TOP_N taken before sorting
TopElements_SliceFirst(cls) ==
    LET first == FirstN(cls, TOP_N) IN SortDescending(first, Len(first))

\* sort all known elements by score descending, take the first TOP_N
TopElements(cls) == FirstN(SortDescending(cls, Len(cls)), TOP_N)

AddSample(sample) ==
    /\ s_pc = "samples"
    /\ s_n < MaxSamples
    /\ clsPerNode' = AddRegions(clsPerNode, sample, 1)
    /\ s_sum' = RatAdd(s_sum, sample.score)
    /\ s_n' = s_n + 1
    /\ s_stream' = Append(s_stream, sample)
    /\ UNCHANGED <<s_pc, s_top, auditVars, gatherVars, decodeVars, imageVars>>

RankElements ==
    /\ s_pc = "samples"
    /\ s_top' = TopElements(clsPerNode)
    /\ s_pc' = "done"
    /\ UNCHANGED <<clsPerNode, s_sum, s_n, s_stream, auditVars, gatherVars, decodeVars, imageVars>>

InitShift ==
    /\ AuditIdle
    /\ GatherIdle
    /\ DecodeIdle
    /\ ImageIdle
    /\ s_pc = "samples"
    /\ clsPerNode = << >>
    /\ s_sum = Rat(0, 1)
    /\ s_n = 0
    /\ s_top = << >>
    /\ s_stream = << >>

NextShift ==
    \/ \E sample \in ShiftSamples : AddSample(sample)
    \/ RankElements

SpecShift == InitShift /\ [][NextShift]_vars

-----------------------------------------------------------------------------
(* SizedImages.audit; strings are sequences of characters *)

DIGITS == {"0", "1", "2", "3", "4", "5", "6", "7", "8", "9"}

AUTO == <<"a", "u", "t", "o">>

\* /^\d+$/.test(attr)
IsNonNegativeInt(attr) == Len(attr) > 0 /\ \A i \in 1 .. Len(attr) : attr[i] \in DIGITS

\* /^0+$/.test(attr)
IsZero(attr) == Len(attr) > 0 /\ \A i \in 1 .. Len(attr) : attr[i] = "0"

isValid(attr) == IsNonNegativeInt(attr) /\ ~IsZero(attr)

\* a string in a condition: '' and undefined are falsy
Truthy(str) == str # << >>

unsizedImage(attrWidth, attrHeight, cssWidth, cssHeight) ==
    IF Truthy(attrWidth) /\ Truthy(attrHeight)
    THEN ~isValid(attrWidth) \/ ~isValid(attrHeight)
    ELSE IF Truthy(attrWidth) /\ Truthy(cssHeight)
    THEN ~isValid(attrWidth) \/ cssHeight = AUTO
    ELSE IF Truthy(cssWidth) /\ Truthy(attrHeight)
    THEN cssWidth = AUTO \/ ~isValid(attrHeight)
    ELSE IF Truthy(cssWidth) /\ Truthy(cssHeight)
    THEN cssWidth = AUTO \/ cssHeight = AUTO
    ELSE TRUE

\* a URL: its protocol, its length in characters and the rest of it
Url(protocol, length, name) == [protocol |-> protocol, length |-> length, name |-> name]

\* URL.elideDataURI: a data URI is cut to its first 100 characters
ElideDataURI(url) ==
    IF url.protocol = "data:" /\ url.length > 100 THEN [url EXCEPT !.length = 100] ELSE url

\* an element of artifacts.ImageElements; the descriptor of the node is told
\* from the name of the image
ImageElement(src, isCss, attributeWidth, attributeHeight, propertyWidth, propertyHeight) ==
    [src |-> src, isCss |-> isCss,
     attributeWidth |-> attributeWidth, attributeHeight |-> attributeHeight,
     propertyWidth |-> propertyWidth, propertyHeight |-> propertyHeight,
     devtoolsNodePath |-> <<"devtoolsNodePath", src.name>>,
     selector |-> <<"selector", src.name>>,
     nodeLabel |-> <<"nodeLabel", src.name>>,
     snippet |-> <<"snippet", src.name>>]

\* the width and height attributes tried: '', '100', '-200', '0'
AttributeValues == {<< >>, <<"1", "0", "0">>, <<"-", "2", "0", "0">>, <<"0">>}

\* the CSS sizes tried: '', 'auto', '100'
PropertyValues == {<< >>, AUTO, <<"1", "0", "0">>}

LOGO == Url("https:", 27, "google.com/logo.png")

\* generateImage(props) of the tests, for every combination of the sizes tried
SingleImages ==
    {ImageElement(LOGO, css, aw, ah, pw, ph) :
        css \in BOOLEAN, aw \in AttributeValues, ah \in AttributeValues,
        pw \in PropertyValues, ph \in PropertyValues}

\* the images of the 'multiple unsized images' test, a CSS background image
\* and an inline image
SampleImages ==
    { ImageElement(Url("", 10, "image1.png"), FALSE, << >>, << >>, << >>, << >>),
      ImageElement(Url("", 10, "image2.png"), FALSE, <<"1", "0", "0">>, <<"1", "5", "0">>,
                   << >>, << >>),
      ImageElement(Url("", 10, "image3.png"), FALSE, << >>, << >>, << >>, << >>),
      ImageElement(LOGO, TRUE, << >>, << >>, << >>, << >>),
      ImageElement(Url("data:", 150, "image/png;base64"), FALSE, <<"-", "2", "0", "0">>,
                   <<"1", "0", "0">>, <<"1", "0", "0">>, << >>) }

ImageLists == {<<image>> : image \in SingleImages} \cup SeqsUpTo(SampleImages, MaxImages)

\* the table item pushed for an unsized image
UnsizedItem(image) ==
    [url  |-> ElideDataURI(image.src),
     node |-> [path      |-> image.devtoolsNodePath,
               selector  |-> image.selector,
               nodeLabel |-> image.nodeLabel,
               snippet   |-> image.snippet]]

\* the CSS background images are not filtered out
FilterImages_KeepCss(elements) == elements

\* artifacts.ImageElements.filter(el => !el.isCss)
FilterImages(elements) == SelectSeq(elements, LAMBDA el : ~el.isCss)

\* an unsized image is put in front of the items pushed before
PushUnsized_InFront(items, image) == <<UnsizedItem(image)>> \o items

\* unsizedImages.push({url, node})
PushUnsized(items, image) == Append(items, UnsizedItem(image))

SizedImagesEnter ==
    /\ i_pc = "start"
    /\ images' = FilterImages(imageElements)
    /\ unsizedImages' = << >>
    /\ i_idx' = 1
    /\ i_pc' = "loop"
    /\ UNCHANGED <<imageElements, i_product, auditVars, gatherVars, decodeVars, shiftVars>>

\* one iteration of for (const image of images)
SizedImagesIterate ==
    /\ i_pc = "loop"
    /\ i_idx <= Len(images)
    /\ LET image == images[i_idx]
       IN  unsizedImages' =
              IF unsizedImage(image.attributeWidth, image.attributeHeight,
                              image.propertyWidth, image.propertyHeight)
              THEN PushUnsized(unsizedImages, image)
              ELSE unsizedImages
    /\ i_idx' = i_idx + 1
    /\ UNCHANGED <<imageElements, i_pc, images, i_product, auditVars, gatherVars,
                   decodeVars, shiftVars>>

SizedImagesReturn ==
    /\ i_pc = "loop"
    /\ i_idx > Len(images)
    /\ i_product' = [returned      |-> TRUE,
                     score         |-> IF Len(unsizedImages) > 0 THEN 0 ELSE 1,
                     notApplicable |-> Len(images) = 0,
                     items         |-> unsizedImages]
    /\ i_pc' = "done"
    /\ UNCHANGED <<imageElements, images, i_idx, unsizedImages, auditVars, gatherVars,
                   decodeVars, shiftVars>>

InitImages ==
    /\ AuditIdle
    /\ GatherIdle
    /\ DecodeIdle
    /\ ShiftIdle
    /\ imageElements \in ImageLists
    /\ i_pc = "start"
    /\ images = << >>
    /\ i_idx = 1
    /\ unsizedImages = << >>
    /\ i_product = NoProduct

NextImages == SizedImagesEnter \/ SizedImagesIterate \/ SizedImagesReturn

SpecImages == InitImages /\ [][NextImages]_vars

-----------------------------------------------------------------------------
(* Properties of the pairing pass and of the assembled product *)

\* both fragments of the key are recorded
Resolved(k) ==
    /\ animationPairs[k].present
    /\ animationPairs[k].begin # NoEvent
    /\ animationPairs[k].status # NoEvent

\* C1: a key for which the stream held only begin fragments, or only status
\* fragments, has no node in any record of the product.
C1_PairingCompleteness ==
    a_pc = "done" =>
        \A k \in AnimKeys :
            (fed[k].b # fed[k].s) => k \notin EmittedKeys(product)

\* a key with only a well-formed begin fragment stays out of a product that
\* holds the node of another key
C1_Witness ==
    /\ a_pc = "done"
    /\ \E k \in AnimKeys :
          /\ fed[k].b /\ ~fed[k].s
          /\ animationPairs[k].begin.nodeId # 0
          /\ k \notin EmittedKeys(product)
          /\ EmittedKeys(product) # {}

\* C2 as stated: once a key is resolved, no later event changes its recorded
\* begin or status.
C2_ResolvedImmutable ==
    [][\A k \in AnimKeys : Resolved(k) => animationPairs'[k] = animationPairs[k]]_vars

\* C2 amended: the recorded begin of a key is always the last begin fragment
\* the stream has held for the key, and the recorded status the last status
\* fragment, before and after resolution alike; a resolved key stays resolved.
C2_LastFragmentWins ==
    \A k \in AnimKeys :
        /\ (fed[k].b \/ fed[k].s) => animationPairs[k].present
        /\ fed[k].b => animationPairs[k].begin = fed[k].lastB
        /\ fed[k].s => animationPairs[k].status = fed[k].lastS
        /\ (fed[k].b /\ fed[k].s) => Resolved(k)

\* a key that received a fragment after it was resolved
C2_Witness == \E k \in AnimKeys : Resolved(k) /\ fed[k].late

\* the failure code has the catalog bit 1<<13 and a bit outside the catalog
MixedCode(c) == JsAnd(c, 2 ^ 13) # 0 /\ JsAndNot(c, 2 ^ 13) # 0

\* C3: in the revisions that decode the failure code, a resolved pair whose
\* code has bit 1<<13 together with a bit outside the catalog puts no node into
\* the product.
C3_ActionableOnly ==
    (a_pc = "done" /\ rev \in {"part_000", "part_001"}) =>
        \A k \in AnimKeys :
            (Resolved(k) /\ MixedCode(animationPairs[k].status.compositeFailed))
                => k \notin EmittedKeys(product)

\* the event lacks its payload: no args, no args.data, or no nodeId (begin) or
\* no compositeFailed (status)
LacksPayload(e) ==
    e # NoEvent /\ (~e.args \/ ~e.data \/ (e.nodeId = 0 /\ e.compositeFailed = 0))

\* C8: an event lacking its payload never makes the audit throw, and its key
\* is dropped from the product.
C8_LocalFailuresNeverAbort ==
    /\ a_pc # "threw"
    /\ a_pc = "done" =>
          \A k \in AnimKeys :
              (animationPairs[k].present /\ LacksPayload(animationPairs[k].begin))
                  => k \notin EmittedKeys(product)

-----------------------------------------------------------------------------
(* Properties of AnimatedElements.afterPass *)

RECURSIVE FirstSeen(_, _)
\* the non-zero ids of a list, each once, in order of first occurrence
FirstSeen(ids, seen) ==
    IF ids = << >> THEN << >>
    ELSE IF Head(ids) = 0 \/ Head(ids) \in seen THEN FirstSeen(Tail(ids), seen)
    ELSE <<Head(ids)>> \o FirstSeen(Tail(ids), seen \cup {Head(ids)})

\* the node ids of the begin fragments of the trace, in stream order
BeginNodeIds(events) ==
    LET begins == SelectSeq(events, LAMBDA e : e.name = "Animation" /\ e.ph = "b")
    IN  [i \in 1 .. Len(begins) |->
            IF begins[i].args /\ begins[i].data THEN begins[i].nodeId ELSE 0]

\* a stream of begin fragments, one per id of the list
BeginsOf(ids) ==
    [i \in 1 .. Len(ids) |-> Event("Animation", "b", GatherKey, Payload(TRUE, TRUE, ids[i], 0))]

\* the driver resolves every node to its data
AllResolve == \A n \in 1 .. MaxNode : g_driver[n] = "value"

\* C5: the output holds each node id of a begin fragment exactly once, in order
\* of first occurrence (stated for a driver that resolves every node).
C5_AnimatedDedup ==
    (g_pc = "done" /\ AllResolve) => g_out = FirstSeen(BeginNodeIds(g_trace.events), {})

\* C6: the output fed back in as begin fragments gives the same list, and
\* appending a begin fragment of an id already in the stream does not change
\* the output (stated for a driver that resolves every node).
C6_DedupIdempotent ==
    (g_pc = "done" /\ AllResolve) =>
        /\ AfterPassResult(g_driver, BeginsOf(g_out)) = g_out
        /\ \A i \in 1 .. Len(g_out) :
              AfterPassResult(g_driver, g_trace.events \o BeginsOf(<<g_out[i]>>)) = g_out

\* C7: with no trace afterPass throws 'Trace is missing!' before it reads an
\* event or calls the driver, and returns nothing; with a trace it never
\* throws that error.
C7_MissingTraceFatal ==
    /\ (~g_trace.present /\ g_pc \notin {"idle", "start"}) =>
          /\ g_pc = "threw"
          /\ g_err = "Trace is missing!"
          /\ ~g_read
          /\ g_calls = 0
          /\ g_out = << >>
    /\ (g_trace.present /\ g_pc # "idle") => (g_pc # "threw" /\ g_err = "")

\* afterPass has thrown on a missing trace
C7_Witness == ~g_trace.present /\ g_pc = "threw" /\ g_err = "Trace is missing!"

-----------------------------------------------------------------------------
(* Properties of the decoder *)

\* bit b of the two's complement pattern of an int32, b < 31
BitSet(code, b) == (Low31(code) \div (2 ^ b)) % 2 = 1

\* the position of the single bit of a catalog flag
FlagBit(flag) == CHOOSE b \in 0 .. 30 : 2 ^ b = flag

\* the texts of the catalog entries whose bit is set in the code, in catalog order
ExpectedReasons(code) ==
    LET hit == SelectSeq(ACTIONABLE_FAILURE_REASONS,
                         LAMBDA r : BitSet(code, FlagBit(r.flag)))
    IN  [i \in 1 .. Len(hit) |-> hit[i].text]

\* C4: each decoder returns the text of a catalog entry exactly when the bit
\* of its flag is set in the code, once, in catalog order; the code 1<<13
\* decodes to the one reason 'Unsupported CSS Property'.
C4_DecoderExact ==
    /\ d_plain.returned =>
          /\ d_plain.value = ExpectedReasons(d_code)
          /\ d_code = 2 ^ 13 => d_plain.value = <<"Unsupported CSS Property">>
    /\ d_flagged.returned =>
          /\ d_flagged.value.failureReasons = ExpectedReasons(d_code)
          /\ d_code = 2 ^ 13 =>
                d_flagged.value.failureReasons = <<"Unsupported CSS Property">>

\* a code with bit 1<<13 and other bits was decoded to the one reason
C4_Witness ==
    /\ d_plain.returned /\ d_flagged.returned
    /\ d_code = 2 ^ 13 + 2 ^ 12 + 1
    /\ d_plain.value = <<"Unsupported CSS Property">>

-----------------------------------------------------------------------------
(* Properties of the layout-shift attribution *)

RECURSIVE SumScores(_)
SumScores(entries) ==
    IF entries = << >> THEN Rat(0, 1)
    ELSE RatAdd(Head(entries).score, SumScores(Tail(entries)))

\* the position of a node in the aggregation map: its first-seen rank
FirstSeenRank(nodeId) == CHOOSE i \in 1 .. Len(clsPerNode) : clsPerNode[i].nodeId = nodeId

\* the entries of the map that are not in the list returned
Omitted ==
    {i \in 1 .. Len(clsPerNode) :
        \A j \in 1 .. Len(s_top) : s_top[j].nodeId # clsPerNode[i].nodeId}

\* C9: the scores of all elements add up to the sum of the samples' totalScore
\* (in exact arithmetic); with at most 5 elements the scores returned do.
C9_ScoreConservation ==
    /\ SumScores(clsPerNode) = s_sum
    /\ (s_pc = "done" /\ Len(clsPerNode) <= TOP_N) => SumScores(s_top) = s_sum

\* three samples over several nodes were ranked, all of them returned
C9_Witness ==
    /\ s_pc = "done" /\ s_n = 3
    /\ Len(clsPerNode) \in 3 .. TOP_N
    /\ SumScores(s_top) = s_sum
    /\ s_sum.n > s_sum.d

\* C10: at most 5 entries are returned, each an element of the map with its
\* score, in non-increasing order of score, none smaller than an omitted
\* element's score, and elements of equal score in first-seen order.
C10_TopRanking ==
    s_pc = "done" =>
        /\ Len(s_top) <= TOP_N
        /\ Len(s_top) + Cardinality(Omitted) = Len(clsPerNode)
        /\ \A j \in 1 .. Len(s_top) :
              \E i \in 1 .. Len(clsPerNode) : clsPerNode[i] = s_top[j]
        /\ \A j \in 1 .. Len(s_top) - 1 :
              /\ ~RatLess(s_top[j].score, s_top[j + 1].score)
              /\ s_top[j].score = s_top[j + 1].score =>
                    FirstSeenRank(s_top[j].nodeId) < FirstSeenRank(s_top[j + 1].nodeId)
        /\ \A j \in 1 .. Len(s_top) : \A i \in Omitted :
              /\ ~RatLess(s_top[j].score, clsPerNode[i].score)
              /\ s_top[j].score = clsPerNode[i].score => FirstSeenRank(s_top[j].nodeId) < i

\* more than 5 elements were ranked, with a tie among those returned and a tie
\* between a returned and an omitted one
C10_Witness ==
    /\ s_pc = "done"
    /\ Len(clsPerNode) > TOP_N
    /\ Len(s_top) = TOP_N
    /\ \E j \in 1 .. Len(s_top) - 1 : s_top[j].score = s_top[j + 1].score
    /\ \E i \in Omitted : clsPerNode[i].score = s_top[TOP_N].score

-----------------------------------------------------------------------------
(* Properties of the split of one sample and of the accumulation *)

\* the first sample of the 'sorted by impact area' test
FixtureShift == Sample(Rat(1, 1), << Region(60, <<0, 0, 200, 100>>, <<0, 0, 200, 200>>),
                                    Region(25, <<0, 100, 200, 100>>, <<0, 300, 200, 200>>) >>)

\* the second sample of the 'combines scores' test
FixtureSecondShift ==
    Sample(Rat(3, 10), << Region(60, <<0, 0, 200, 200>>, <<0, 100, 200, 200>>) >>)

\* the score the map holds for a node, 0 when it has no entry
ScoreOf(nodeId) ==
    IF \E i \in 1 .. Len(clsPerNode) : clsPerNode[i].nodeId = nodeId
    THEN clsPerNode[FirstSeenRank(nodeId)].score
    ELSE Rat(0, 1)

\* C11 as stated: after one sample each region's score is the sample's score
\* times |area(new) - area(old)| over the sum of these, and the fixture comes
\* out as 0.4 for node 60 and 0.6 for node 25.
C11_AreaDeltaSplit ==
    s_n = 1 =>
        LET regions == s_stream[1].impacted_nodes
        IN  /\ \A i, j \in 1 .. Len(regions) :
                  ScoreOf(regions[i].node_id).n * ScoreOf(regions[j].node_id).d
                        * RegionAreaDelta(regions[j])
                    = ScoreOf(regions[j].node_id).n * ScoreOf(regions[i].node_id).d
                        * RegionAreaDelta(regions[i])
            /\ s_stream[1] = FixtureShift =>
                  ScoreOf(60) = Rat(2, 5) /\ ScoreOf(25) = Rat(3, 5)

\* C11: after one sample the scores of its regions are in the proportion of
\* the areas covered by their old or new rect (area(old) + area(new) minus
\* the overlap of the two), and the fixture comes out as 0.4 for node 60 and
\* 0.6 for node 25.
C11_ImpactAreaSplit ==
    s_n = 1 =>
        LET regions == s_stream[1].impacted_nodes
            Covered(r) == RectArea(r.old_rect) + RectArea(r.new_rect)
                            - RectOverlap(r.old_rect, r.new_rect)
        IN  /\ \A i, j \in 1 .. Len(regions) :
                  ScoreOf(regions[i].node_id).n * ScoreOf(regions[j].node_id).d * Covered(regions[j])
                    = ScoreOf(regions[j].node_id).n * ScoreOf(regions[i].node_id).d * Covered(regions[i])
            /\ s_stream[1] = FixtureShift =>
                  ScoreOf(60) = Rat(2, 5) /\ ScoreOf(25) = Rat(3, 5)

\* the fixture's sample was split: nodes of equal area delta, unequal scores
C11_Witness ==
    /\ s_n = 1
    /\ s_stream[1] = FixtureShift
    /\ RegionAreaDelta(FixtureShift.impacted_nodes[1])
         = RegionAreaDelta(FixtureShift.impacted_nodes[2])
    /\ clsPerNode = << [nodeId |-> 60, score |-> Rat(2, 5)],
                       [nodeId |-> 25, score |-> Rat(3, 5)] >>

\* the weights of all regions of a sample are zero
ZeroWeights(sample) ==
    \A i \in 1 .. Len(sample.impacted_nodes) :
        /\ RectArea(sample.impacted_nodes[i].old_rect) = 0
        /\ RectArea(sample.impacted_nodes[i].new_rect) = 0

RECURSIVE ContributionsOf(_, _, _)
\* what the samples from index i on give to a node: for every region of the
\* node its weight over the sum of the sample's weights (an equal part when
\* that sum is zero), times the sample's score
ContributionsOf(nodeId, stream, i) ==
    IF i > Len(stream) THEN Rat(0, 1)
    ELSE LET sample == stream[i]
             regions == sample.impacted_nodes
             mine == {j \in 1 .. Len(regions) : regions[j].node_id = nodeId}
             here == IF mine = {} THEN Rat(0, 1)
                     ELSE RegionShare(sample, regions[CHOOSE j \in mine : TRUE])
         IN  RatAdd(here, ContributionsOf(nodeId, stream, i + 1))

\* C13: the map and the list returned hold at most one entry per node id; an
\* entry's score is the sum of the node's contributions over the samples
\* processed; node 60 with 0.4 in one sample and 0.3 in the next has 0.7.
C13_PerElementAccumulation ==
    /\ \A i, j \in 1 .. Len(clsPerNode) :
          clsPerNode[i].nodeId = clsPerNode[j].nodeId => i = j
    /\ \A i, j \in 1 .. Len(s_top) : s_top[i].nodeId = s_top[j].nodeId => i = j
    /\ \A i \in 1 .. Len(clsPerNode) :
          clsPerNode[i].score = ContributionsOf(clsPerNode[i].nodeId, s_stream, 1)
    /\ \A i \in 1 .. Len(s_stream) : \A j \in 1 .. Len(s_stream[i].impacted_nodes) :
          \E k \in 1 .. Len(clsPerNode) :
              clsPerNode[k].nodeId = s_stream[i].impacted_nodes[j].node_id
    /\ s_stream = <<FixtureShift, FixtureSecondShift>> =>
          /\ ScoreOf(60) = Rat(7, 10)
          /\ s_pc = "done" => s_top = << [nodeId |-> 60, score |-> Rat(7, 10)],
                                        [nodeId |-> 25, score |-> Rat(3, 5)] >>

\* the two samples of the test were processed and ranked
C13_Witness ==
    /\ s_pc = "done"
    /\ s_stream = <<FixtureShift, FixtureSecondShift>>
    /\ s_top = << [nodeId |-> 60, score |-> Rat(7, 10)],
                  [nodeId |-> 25, score |-> Rat(3, 5)] >>

-----------------------------------------------------------------------------
(* Properties of the diagnostic records *)

\* the revisions whose records show failure reasons
DecodingRevs == {"part_000", "part_001"}

\* the reason set decoded from the recorded status of a key
DecodedReasonsOf(k) == ExpectedReasons(animationPairs[k].status.compositeFailed)

\* C14: in the revisions that show failure reasons, the reasons of every record
\* are the decoded reasons of each element grouped in it, so that two pairs
\* with different decoded reason sets are never in one record.
C14_GroupingByReasonSet ==
    (a_pc = "done" /\ rev \in DecodingRevs) =>
        \A i \in 1 .. Len(product.items) :
            LET record == product.items[i]
            IN  /\ \A j \in 1 .. Len(record.nodes) :
                      record.failureReasons = DecodedReasonsOf(record.nodes[j].key)
                /\ \A j, l \in 1 .. Len(record.nodes) :
                      DecodedReasonsOf(record.nodes[j].key)
                          = DecodedReasonsOf(record.nodes[l].key)

\* one record groups the elements of two pairs whose failure codes differ
C14_Witness ==
    /\ a_pc = "done" /\ rev \in DecodingRevs
    /\ Len(product.items) = 1
    /\ Len(product.items[1].nodes) = 2
    /\ animationPairs[product.items[1].nodes[1].key].status.compositeFailed
         # animationPairs[product.items[1].nodes[2].key].status.compositeFailed
    /\ product.items[1].failureReasons = <<"Unsupported CSS Property">>

-----------------------------------------------------------------------------
(* Properties of elements whose descriptor cannot be resolved *)

\* the recorded fragments of a key carry their payload and the failure code
\* decodes to a reason: the pair reaches the look-up of its element
ReachesLookup(k) ==
    /\ Resolved(k)
    /\ animationPairs[k].begin.args /\ animationPairs[k].begin.data
    /\ animationPairs[k].begin.nodeId # 0
    /\ animationPairs[k].status.args /\ animationPairs[k].status.data
    /\ ExpectedReasons(animationPairs[k].status.compositeFailed) # << >>

\* no entry for the node of the key among the animated elements
NoDescriptor(k) ==
    \A e \in traceElements :
        e.metricName = CLS_METRIC => e.nodeId # animationPairs[k].begin.nodeId

\* some recorded fragment has no args at all
ArgsMissing ==
    \E k \in AnimKeys :
        /\ animationPairs[k].present
        /\ \/ animationPairs[k].begin # NoEvent /\ ~animationPairs[k].begin.args
           \/ animationPairs[k].status # NoEvent /\ ~animationPairs[k].status.args

\* the keys of the nodes of the product, in table order
EmittedKeySeq == [j \in 1 .. Len(EmittedNodes(product)) |-> EmittedNodes(product)[j].key]

\* the driver resolves the node id and returns a value for it
Answered(id) == g_driver[id] = "value"

\* C15: in the audit of part_000 a pair without TraceElements entry is left
\* out, alone: the nodes emitted are those of the other pairs that reach the
\* look-up, in the order their keys entered the stream, and the audit throws
\* only over a fragment without args; in the gatherer the elements returned
\* are those of the begin fragments' node ids the driver answers with a value,
\* in stream order, and it throws only over a missing trace.
C15_UnresolvedTolerated ==
    /\ (a_pc = "done" /\ rev = "part_000") =>
          EmittedKeySeq =
              SelectSeq(pairOrder, LAMBDA k : ReachesLookup(k) /\ ~NoDescriptor(k))
    /\ (a_pc = "threw" /\ rev = "part_000") => ArgsMissing
    /\ g_pc = "done" =>
          g_out = SelectSeq(BeginNodeIds(g_trace.events),
                            LAMBDA id : id # 0 /\ Answered(id))
    /\ g_pc = "threw" => ~g_trace.present

\* the first pair of the stream has no TraceElements entry, the second has:
\* only the node of the second is in the product
C15_Witness ==
    /\ a_pc = "done" /\ rev = "part_000"
    /\ Len(pairOrder) = 2
    /\ ReachesLookup(pairOrder[1]) /\ NoDescriptor(pairOrder[1])
    /\ ReachesLookup(pairOrder[2]) /\ ~NoDescriptor(pairOrder[2])
    /\ EmittedKeySeq = <<pairOrder[2]>>

-----------------------------------------------------------------------------
(* Properties of the join with the TraceElements artifact *)

\* the item shows the element of the entry under the name of its animation
ShowsElement(item, k, e) ==
    /\ item.animation = e.animations[1].name
    /\ \E j \in 1 .. Len(item.nodes) :
          item.nodes[j] = [path      |-> e.devtoolsNodePath,
                           selector  |-> e.selector,
                           nodeLabel |-> e.nodeLabel,
                           snippet   |-> e.snippet,
                           key       |-> k]

\* C16: for a resolved non-composited animation whose begin fragment names a
\* node with a TraceElements entry, the product of part_000 has score 0 and an
\* item with the entry's devtoolsNodePath, selector, nodeLabel and snippet
\* under the name of the element's animation; one such animation, one item.
C16_EnrichmentJoin ==
    (a_pc = "done" /\ rev = "part_000") =>
        \A k \in AnimKeys : \A e \in traceElements :
            (ReachesLookup(k) /\ e.nodeId = animationPairs[k].begin.nodeId) =>
                /\ product.score = 0
                /\ \E i \in 1 .. Len(product.items) : ShowsElement(product.items[i], k, e)
                /\ Len(pairOrder) = 1 => Len(product.items) = 1

-----------------------------------------------------------------------------
(* Properties of the completeness guard *)

\* the recorded begin of the key carries a node id
BeginHasNode(k) ==
    /\ animationPairs[k].begin # NoEvent
    /\ animationPairs[k].begin.args /\ animationPairs[k].begin.data
    /\ animationPairs[k].begin.nodeId # 0

\* the recorded status of the key carries a non-zero failure code
StatusHasCode(k) ==
    /\ animationPairs[k].status # NoEvent
    /\ animationPairs[k].status.args /\ animationPairs[k].status.data
    /\ animationPairs[k].status.compositeFailed # 0

\* C20: in every revision, a key has a node in the product only if its
\* recorded begin carries a node id and its recorded status a non-zero
\* compositeFailed; a pair with both fragments and a payload missing has none.
C20_CompletenessNeedsPayload ==
    a_pc = "done" =>
        \A k \in AnimKeys :
            /\ k \in EmittedKeys(product) => BeginHasNode(k) /\ StatusHasCode(k)
            /\ (Resolved(k) /\ ~(BeginHasNode(k) /\ StatusHasCode(k)))
                  => k \notin EmittedKeys(product)

-----------------------------------------------------------------------------
(* Properties of the sized-images audit *)

\* a positive integer string: digits only, not all of them 0
PositiveIntString(str) ==
    /\ str # << >>
    /\ \A i \in 1 .. Len(str) : str[i] \in DIGITS
    /\ \E i \in 1 .. Len(str) : str[i] # "0"

\* a CSS size that is non-empty and not 'auto'
DefinedCssSize(str) == str # << >> /\ str # AUTO

\* the width, and the height, is valid in at least one form
SizedByRule(image) ==
    /\ PositiveIntString(image.attributeWidth) \/ DefinedCssSize(image.propertyWidth)
    /\ PositiveIntString(image.attributeHeight) \/ DefinedCssSize(image.propertyHeight)

\* C17: the audit of one non-CSS image returns score 1 and no item exactly
\* when its width is valid in at least one form (attribute or CSS) and its
\* height is valid in at least one form, and score 0 with the image as its
\* item otherwise.
C17_SizedImageRule ==
    (i_pc = "done" /\ Len(imageElements) = 1 /\ ~imageElements[1].isCss) =>
        /\ i_product.score = 1 <=> SizedByRule(imageElements[1])
        /\ i_product.score = 0 <=> ~SizedByRule(imageElements[1])
        /\ Len(i_product.items) = 0 <=> SizedByRule(imageElements[1])

\* the image is one the audit classifies as unsized
ClassifiedUnsized(image) ==
    unsizedImage(image.attributeWidth, image.attributeHeight,
                 image.propertyWidth, image.propertyHeight)

\* the images of the artifact that are not CSS background images
NonCssImages == SelectSeq(imageElements, LAMBDA el : ~el.isCss)

\* C18: the score is 0 exactly when some non-CSS image is classified unsized
\* and 1 otherwise, whatever CSS background images the list holds;
\* notApplicable is true exactly when the list has no non-CSS image, and then
\* the score is 1.
C18_UnsizedScoring ==
    i_pc = "done" =>
        /\ i_product.score \in {0, 1}
        /\ i_product.score = 0 <=>
              \E i \in 1 .. Len(NonCssImages) : ClassifiedUnsized(NonCssImages[i])
        /\ i_product.notApplicable <=> Len(NonCssImages) = 0
        /\ i_product.notApplicable => i_product.score = 1
        /\ \A i \in 1 .. Len(i_product.items) :
              \E j \in 1 .. Len(NonCssImages) :
                  i_product.items[i].node.path = NonCssImages[j].devtoolsNodePath

\* a list with a CSS background image without any size beside a sized image
\* scores 1 and is applicable
C18_Witness ==
    /\ i_pc = "done"
    /\ \E i \in 1 .. Len(imageElements) :
          imageElements[i].isCss /\ ClassifiedUnsized(imageElements[i])
    /\ Len(NonCssImages) > 0
    /\ i_product.score = 1
    /\ ~i_product.notApplicable

\* the ImageElements of the 'multiple unsized images' test
FixtureImages ==
    << ImageElement(Url("", 10, "image1.png"), FALSE, << >>, << >>, << >>, << >>),
       ImageElement(Url("", 10, "image2.png"), FALSE, <<"1", "0", "0">>, <<"1", "5", "0">>,
                    << >>, << >>),
       ImageElement(Url("", 10, "image3.png"), FALSE, << >>, << >>, << >>, << >>) >>

\* C19: the items are the non-CSS images classified unsized, one item per
\* image with its url and its node, in the order of the input list; images 1,
\* 2, 3 with 1 and 3 unsized give the items of image 1 and image 3.
C19_UnsizedDetails ==
    i_pc = "done" =>
        LET expected == SelectSeq(imageElements,
                                  LAMBDA el : ~el.isCss /\ ClassifiedUnsized(el))
        IN  /\ Len(i_product.items) = Len(expected)
            /\ \A j \in 1 .. Len(expected) :
                  /\ i_product.items[j].url.name = expected[j].src.name
                  /\ i_product.items[j].url.protocol = expected[j].src.protocol
                  /\ i_product.items[j].node.path = expected[j].devtoolsNodePath
                  /\ i_product.items[j].node.selector = expected[j].selector
                  /\ i_product.items[j].node.nodeLabel = expected[j].nodeLabel
                  /\ i_product.items[j].node.snippet = expected[j].snippet
            /\ imageElements = FixtureImages =>
                  [j \in 1 .. Len(i_product.items) |-> i_product.items[j].url.name]
                      = <<"image1.png", "image3.png">>

\* the list of the test was audited: two items, image 1 before image 3
C19_Witness ==
    /\ i_pc = "done"
    /\ imageElements = FixtureImages
    /\ i_product.score = 0
    /\ Len(i_product.items) = 2
    /\ i_product.items[1].url.name = "image1.png"
    /\ i_product.items[2].url.name = "image3.png"

-----------------------------------------------------------------------------
(* Properties of the recorded streams *)

RECURSIVE PairingFrom(_, _, _, _, _)
\* the pairing pass over a stream from index i on
PairingFrom(r, stream, i, pairs, order) ==
    IF i > Len(stream) THEN [pairs |-> pairs, order |-> order]
    ELSE PairingFrom(r, stream, i + 1, PairsAfter(r, pairs, stream[i]),
                     OrderAfter(r, pairs, order, stream[i]))

\* what a run emits: whether it threw, and for every node of its product the
\* node (with its key) and the failure code recorded for the key
OutcomeOf(threw, items, pairs) ==
    [threw   |-> threw,
     emitted |-> {<<NodesFrom(items, 1)[j],
                    pairs[NodesFrom(items, 1)[j].key].status.compositeFailed>> :
                     j \in 1 .. Len(NodesFrom(items, 1))}]

\* the outcome of the audit on a stream
AuditOf(r, te, stream) ==
    LET p   == PairingFrom(r, stream, 1, [k \in AnimKeys |-> NoPair], << >>)
        res == AssembleFrom(r, te, p.pairs, p.order, 1, << >>)
    IN  OutcomeOf(res.threw, res.items, p.pairs)

\* the positions of the begin, and of the status, fragments of a key
BeginsAt(k) == {i \in 1 .. Len(a_stream) : a_stream[i].local = k /\ IsBeginFragment(a_stream[i])}

StatusesAt(k) ==
    {i \in 1 .. Len(a_stream) : a_stream[i].local = k /\ IsStatusFragment(rev, a_stream[i])}

OneOfEach ==
    \A k \in AnimKeys : Cardinality(BeginsAt(k)) <= 1 /\ Cardinality(StatusesAt(k)) <= 1

\* C21: when every key of the stream has at most one begin and at most one
\* status fragment, the audit of every permutation of the stream emits the
\* same set of (key, element, failure code); a key whose status fragment came
\* before its begin fragment is resolved.
C21_ArrivalOrderIndependence ==
    (a_pc = "done" /\ OneOfEach) =>
        /\ \A p \in Permutations(1 .. Len(a_stream)) :
              AuditOf(rev, traceElements, [i \in 1 .. Len(a_stream) |-> a_stream[p[i]]])
                  = OutcomeOf(FALSE, product.items, animationPairs)
        /\ \A k \in AnimKeys :
              (BeginsAt(k) # {} /\ StatusesAt(k) # {}) => Resolved(k)

\* the status fragment of a key came first, its begin fragment after it, and
\* the key is in the product
C21_Witness ==
    /\ a_pc = "done" /\ OneOfEach
    /\ \E k \in AnimKeys :
          /\ \E i \in StatusesAt(k) : \E j \in BeginsAt(k) : i < j
          /\ k \in EmittedKeys(product)

\* the greatest element of a non-empty set of positions
Last(S) == CHOOSE i \in S : \A j \in S : j <= i

\* the key got several begin fragments, all of them before its first status
\* fragment
SeveralBeginsFirst(k) ==
    /\ Cardinality(BeginsAt(k)) >= 2
    /\ StatusesAt(k) # {}
    /\ \A i \in BeginsAt(k) : \A j \in StatusesAt(k) : i < j

\* the node id a node of the product stands for
NodeIdOf(node) == IF rev = "part_000" THEN node.nodeLabel[2] ELSE node.nodeLabel

\* the nodes of the product built from the pair of a key
NodesOfKey(k) ==
    {j \in 1 .. Len(EmittedNodes(product)) : EmittedNodes(product)[j].key = k}

\* C22: a key that got several begin fragments before any status fragment has
\* the last of them as its recorded begin, and at most one node in the
\* product, which is the node of that last begin fragment.
C22_LastBeginWins ==
    \A k \in AnimKeys :
        SeveralBeginsFirst(k) =>
            /\ animationPairs[k].begin = a_stream[Last(BeginsAt(k))]
            /\ a_pc = "done" =>
                  /\ Cardinality(NodesOfKey(k)) <= 1
                  /\ \A j \in NodesOfKey(k) :
                        NodeIdOf(EmittedNodes(product)[j])
                            = a_stream[Last(BeginsAt(k))].nodeId

\* two begin fragments naming different nodes, then the status fragment: the
\* product has the node of the second
C22_Witness ==
    /\ a_pc = "done"
    /\ \E k \in AnimKeys :
          /\ SeveralBeginsFirst(k)
          /\ \E i \in BeginsAt(k) : a_stream[i].nodeId # a_stream[Last(BeginsAt(k))].nodeId
          /\ Cardinality(NodesOfKey(k)) = 1
          /\ \A j \in NodesOfKey(k) :
                NodeIdOf(EmittedNodes(product)[j]) = a_stream[Last(BeginsAt(k))].nodeId

\* the event is one the pairing pass has to pass over: its name is not one the
\* revision tracks, it has no id2.local, or it is an Animation event of a
\* phase that is neither begin nor status
PassedOver(r, e) ==
    \/ e.name \notin (IF r = "part_000" THEN {"Animation", "CompositeAnimation"}
                      ELSE {"Animation"})
    \/ e.local = ""
    \/ e.name = "Animation" /\ e.ph \notin {"b", "n"}

\* C23: processing an event changes no pair but the one under the event's own
\* key, and an event that is passed over leaves begin and status of every
\* existing pair as they were.
C23_FrameCondition ==
    [][a_stream' # a_stream =>
          LET e == a_stream'[Len(a_stream')]
          IN  /\ \A k \in AnimKeys :
                    k # e.local => animationPairs'[k] = animationPairs[k]
              /\ PassedOver(rev, e) =>
                    \A k \in AnimKeys :
                        animationPairs[k].present =>
                            /\ animationPairs'[k].begin = animationPairs[k].begin
                            /\ animationPairs'[k].status = animationPairs[k].status]_vars

\* an event that is passed over came last, under the key of a resolved pair
\* that still holds the two fragments of the stream
C23_Witness ==
    /\ Len(a_stream) = 3
    /\ PassedOver(rev, a_stream[3])
    /\ a_stream[3].local # ""
    /\ Resolved(a_stream[3].local)
    /\ {animationPairs[a_stream[3].local].begin, animationPairs[a_stream[3].local].status}
         = {a_stream[1], a_stream[2]}

-----------------------------------------------------------------------------
(* Properties of the decoder that flags non-actionable reasons *)

\* the positions of the flags of the catalog
CatalogBits == {FlagBit(ACTIONABLE_FAILURE_REASONS[i].flag) :
                   i \in 1 .. Len(ACTIONABLE_FAILURE_REASONS)}

\* bit b of the 32-bit pattern of the code; bit 31 is the sign
Int32Bit(code, b) == IF b = 31 THEN code < 0 ELSE BitSet(code, b)

\* the code with the bit of position b < 31 inverted
WithBitInverted(code, b) == IF BitSet(code, b) THEN code - 2 ^ b ELSE code + 2 ^ b

\* C24: the decoder of part_001 returns hasNonActionable true exactly when a
\* bit of the code is set that is not the flag of a catalog entry; inverting a
\* catalog bit of the code leaves hasNonActionable as it is.
C24_NonActionableFlag ==
    d_flagged.returned =>
        /\ d_flagged.value.hasNonActionable
              <=> \E b \in 0 .. 31 : Int32Bit(d_code, b) /\ b \notin CatalogBits
        /\ \A b \in CatalogBits :
              getActionableFailureReasonsFlagged(WithBitInverted(d_code, b)).hasNonActionable
                  = d_flagged.value.hasNonActionable

\* the code 1<<13 was decoded to its reason with hasNonActionable false, where
\* the code with bit 0 beside it gives true
C24_Witness ==
    /\ d_flagged.returned
    /\ d_code = 2 ^ 13
    /\ d_flagged.value.failureReasons = <<"Unsupported CSS Property">>
    /\ ~d_flagged.value.hasNonActionable
    /\ getActionableFailureReasonsFlagged(2 ^ 13 + 1).hasNonActionable

-----------------------------------------------------------------------------
(* Properties of pairs without an actionable reason *)

\* no flag of the catalog is set in the code
NoCatalogBit(code) ==
    \A i \in 1 .. Len(ACTIONABLE_FAILURE_REASONS) :
        JsAnd(code, ACTIONABLE_FAILURE_REASONS[i].flag) = 0

\* C25: in the revisions that decode the failure code, a resolved pair whose
\* code has none of the catalog bits set has no node in any record of the
\* product.
C25_NoReasonNoDiagnostic ==
    (a_pc = "done" /\ rev \in DecodingRevs) =>
        \A k \in AnimKeys :
            (Resolved(k) /\ NoCatalogBit(animationPairs[k].status.compositeFailed))
                => k \notin EmittedKeys(product)

\* a pair that passed the guard with only a bit outside the catalog stays out
\* of a product that holds the node of another key
C25_Witness ==
    /\ a_pc = "done" /\ rev \in DecodingRevs
    /\ \E k \in AnimKeys :
          /\ Resolved(k)
          /\ PairCheck(rev, animationPairs[k]) = "ok"
          /\ animationPairs[k].status.compositeFailed # 0
          /\ NoCatalogBit(animationPairs[k].status.compositeFailed)
          /\ (rev = "part_000" => HasElement(traceElements, animationPairs[k].begin.nodeId))
          /\ k \notin EmittedKeys(product)
          /\ EmittedKeys(product) # {}

-----------------------------------------------------------------------------
(* Properties of the returned product *)

\* C26: a returned product has score 1 and notApplicable true exactly when it
\* has no record, score 0 and notApplicable false otherwise, and a display
\* value exactly when it has a record.
C26_AuditOutcome ==
    a_pc = "done" =>
        /\ (product.score = 1 /\ product.notApplicable) <=> Len(product.items) = 0
        /\ (product.score = 0 /\ ~product.notApplicable) <=> Len(product.items) > 0
        /\ product.displayValue.set <=> Len(product.items) > 0

\* the same outcome rule for the revisions that compute the score from the
\* number of records
C26_OutcomeWhereComputed == rev # "part_002" => C26_AuditOutcome

-----------------------------------------------------------------------------
(* Properties of the number of records *)

\* the revisions that collect the nodes in the Map animations
GroupingRevs == {"part_000", "named", "part_001"}

\* the keys whose pair passes the guard and is not passed over by the callback
QualifyingKeys ==
    {k \in AnimKeys :
        /\ animationPairs[k].present
        /\ PairCheck(rev, animationPairs[k]) = "ok"
        /\ ~Suppressed(rev, traceElements, animationPairs[k])}

\* C27: in the revisions that group by the animation name, the product has at
\* most one record, the item count of the display value is 0 or 1, and the
\* nodes of the record are one per qualifying key.
C27_RecordCount ==
    (a_pc = "done" /\ rev \in GroupingRevs) =>
        /\ Len(product.items) <= 1
        /\ product.displayValue.itemCount \in {0, 1}
        /\ product.displayValue.itemCount = Len(product.items)
        /\ Len(product.items) = 0 <=> QualifyingKeys = {}
        /\ Len(EmittedNodes(product)) = Cardinality(QualifyingKeys)
        /\ EmittedKeys(product) = QualifyingKeys

\* two animations failed to composite and the one record lists both elements
C27_Witness ==
    /\ a_pc = "done" /\ rev \in GroupingRevs
    /\ Cardinality(QualifyingKeys) = 2
    /\ Len(product.items) = 1
    /\ Len(product.items[1].nodes) = 2
    /\ product.displayValue = [set |-> TRUE, itemCount |-> 1]

====
